---- MODULE Spec2Model ----
(***************************************************************************)
(* diskus: parallel disk-usage scan (src/src/walk.rs).                     *)
(*                                                                         *)
(* Workers of a rayon pool walk the trees under the given roots and send   *)
(* SizeEntry / Error / FinishedEntry messages over an unbounded channel; a *)
(* single receiver thread deduplicates hard links and sums sizes per root. *)
(***************************************************************************)
EXTENDS Integers, Sequences, FiniteSets, TLC

(***************************************************************************)
(* Bounds of the model.                                                    *)
(***************************************************************************)
NumPaths == 4
MaxRoots == 2
MaxThreads == 2
MaxFaults == 1
MaxVisits == 4
MaxMsgs == 3
MaxIds == 2
MaxSize == 1

(***************************************************************************)
(* The file system the scan runs on.  Paths are 1..NumPaths; path 1 is the *)
(* top directory and the parent of path p > 1 is p \div 2.  A path with    *)
(* children is a directory, a path without is a regular file.              *)
(***************************************************************************)
Paths == 1..NumPaths

Parent(p) == p \div 2

ChildrenOf(p) == {c \in Paths : c > 1 /\ Parent(c) = p}

IsDir(p) == ChildrenOf(p) # {}

RECURSIVE IsUnder(_, _)
\* p is r or a descendant of r
IsUnder(p, r) == IF p = r THEN TRUE ELSE IF p <= 1 THEN FALSE ELSE IsUnder(Parent(p), r)

RECURSIVE DepthOf(_, _)
\* the depth argument of the walk call that visits p under root r
DepthOf(p, r) == IF p = r \/ p <= 1 THEN 0 ELSE 1 + DepthOf(Parent(p), r)

None == <<>>
Some(x) == <<x>>

VARIABLES
    \* inputs of the scan (Walk::new) and the file system, fixed during a scan
    root_directories,   \* Vec<PathBuf>
    num_threads,        \* usize
    filesize_type,      \* "DiskUsage" | "ApparentSize"
    fs,                 \* [noMeta, noRead, badEntry, notUtf8, order, ino, ids]: the file system
    previous,           \* the earlier calls of Walk::run: their roots and totals
    \* the rayon pool
    item,               \* <<k, p>> -> status of the visit of path p for the k-th root
    stack,              \* worker -> stack of the items it is executing
    \* the channel
    sent,               \* every message sent so far, in channel order
    origin,             \* for each message of sent: <<k, p>>, the item that sent it
    rcvd,               \* number of messages the receiver has taken
    closed,             \* every Sender has been dropped
    \* receiver thread of Walk::run
    ids, sizes, error_messages, result,
    \* receiver thread of Walk::run_and_print
    p_ids, p_sizes, tainted_results, output, p_returned,
    opts,               \* [total, verbose]: the flags given to run_and_print
    \* the process of the call
    halt,               \* Walk::run, run_and_print_sorted: "no", or how the call
                        \* ended early: "panic" | "exit0" | "exit1"
    p_halt,             \* the same for the call of run_and_print
    wrapped             \* an addition has wrapped: the build has no overflow checks

inputVars == <<root_directories, num_threads, filesize_type, fs, previous>>
poolVars == <<item, stack>>
chanVars == <<sent, origin, rcvd, closed>>
runVars == <<ids, sizes, error_messages, result>>
printVars == <<p_ids, p_sizes, tainted_results, output, p_returned>>
procVars == <<halt, p_halt, wrapped>>
vars == <<inputVars, poolVars, chanVars, runVars, printVars, opts, procVars>>

\* no panic and no exit has ended the call
Running == halt = "no" /\ p_halt = "no"

(***************************************************************************)
(* u64 arithmetic.  Sizes and totals are u64 (Message::SizeEntry, line 89). *)
(* An addition that passes 2^64 - 1 panics in a build with overflow checks *)
(* (the debug profile) and wraps in a build without (the release profile). *)
(*                                                                         *)
(* A u64 is held as the integer its 64 bits give when they are read as an  *)
(* i64: a value below 2^63 is itself, a value v from 2^63 on is v - 2^64,  *)
(* so that -1 is the largest u64.  A wrapping addition is the same         *)
(* operation on the bits under both readings.  The operators are written   *)
(* so that TLC, whose integers are narrower, evaluates them on the values  *)
(* next to 0 and next to 2^64.                                             *)
(***************************************************************************)
WordBits == 64

\* 2^(WordBits / 4): the word counts four digits of this base
Quarter == 2 ^ (WordBits \div 4)

\* u64::MAX, 2^64 - 1
U64Max == 0 - 1

\* the integer n without its three lowest digits: the floor of n / 2^48
High(n) == ((n \div Quarter) \div Quarter) \div Quarter

\* the 64 bits of the integer n: n modulo 2^64, from -2^63 to 2^63 - 1
Wrap64(n) ==
    IF High(n) >= 0 - Quarter \div 2 /\ High(n) < Quarter \div 2 THEN n
    ELSE LET m == Quarter * Quarter * Quarter * Quarter
         IN  ((n + m \div 2) % m) - m \div 2

\* the u64 addition a + b passes the largest u64
Overflows(a, b) == (a < 0 /\ b < 0) \/ ((a < 0) # (b < 0) /\ a + b >= 0)

\* a <= b as u64: the values from 2^63 on are the larger ones
Leq64(a, b) == IF (a < 0) = (b < 0) THEN a <= b ELSE b < 0

(***************************************************************************)
(* Metadata, size and identity.                                            *)
(***************************************************************************)
\* fs::symlink_metadata: the attributes of the inode the entry points to
Metadata(p) ==
    [is_dir |-> IsDir(p), ino |-> fs.ino[p], len |-> 2 ^ (fs.ino[p] - 1), blocks |-> fs.ino[p]]

\* FilesizeType::size
FileSize(ft, metadata) ==
    IF ft = "ApparentSize" THEN metadata.len ELSE metadata.blocks * 512

\* unique_id::generate_unique_id
generate_unique_id(metadata) ==
    IF fs.ids THEN Some(metadata.ino) ELSE None

(***************************************************************************)
(* Messages.                                                               *)
(***************************************************************************)
SizeEntry(id, root, size) == [type |-> "SizeEntry", unique_id |-> id, root |-> root, size |-> size]
FinishedEntry(root) == [type |-> "FinishedEntry", path |-> root]
ErrorMsg(kind, p) == [type |-> "Error", error |-> [kind |-> kind, path |-> p]]

Roots == 1..Len(root_directories)
Workers == 1..num_threads
Items == Roots \X Paths

Send(m, k, p) ==
    /\ sent' = Append(sent, m)
    /\ origin' = Append(origin, <<k, p>>)
    /\ UNCHANGED <<rcvd, closed>>


(***************************************************************************)
(* Initial states: the inputs of Walk::new, a file system, an idle pool,   *)
(* an empty channel and the receiver's empty collections.                  *)
(***************************************************************************)
Dirs == {p \in Paths : IsDir(p)}

\* hard links: a regular file points to its own inode or to the inode of an
\* earlier regular file; a directory has an inode of its own
InodeMaps ==
    {f \in [Paths -> Paths] :
        \A p \in Paths :
            /\ f[p] <= p
            /\ f[f[p]] = f[p]
            /\ (IsDir(p) \/ IsDir(f[p])) => f[p] = p}

\* notUtf8: the paths whose name is not valid UTF-8 (to_str() is None)
FaultSets ==
    {f \in [noMeta : SUBSET Paths, noRead : SUBSET Dirs, badEntry : SUBSET (Paths \ {1}),
            notUtf8 : SUBSET Paths] :
        Cardinality(f.noMeta) + Cardinality(f.noRead) + Cardinality(f.badEntry)
            + Cardinality(f.notUtf8) <= MaxFaults}

\* the orders in which a file system whose failing entries are bad may list
\* its directories: order[p] is the place of p in the listing of its parent.
\* read_dir yields the entries in the order of the file system and the code
\* does not sort them (lines 127-131).  The order of a listing shows only in
\* which entries come before a failing one, so a listing without a failing
\* entry is kept in one order, and a failing entry takes every place among
\* the entries of its directory.
ListingOrders(bad) ==
    {o \in [Paths -> Paths] :
        /\ \A p, q \in Paths : p # q => o[p] # o[q]
        /\ \A p, q \in Paths :
              (p < q /\ o[p] > o[q]) =>
                  /\ p > 1 /\ Parent(p) = Parent(q)
                  /\ p \in bad \/ q \in bad}

FileSystems ==
    UNION {{[noMeta |-> f.noMeta, noRead |-> f.noRead, badEntry |-> f.badEntry,
             notUtf8 |-> f.notUtf8, order |-> o, ino |-> i, ids |-> b] :
               o \in ListingOrders(f.badEntry), i \in InodeMaps, b \in BOOLEAN} :
           f \in FaultSets}

\* the number of entries under path p, p included
SubtreeSize(p) == Cardinality({q \in Paths : IsUnder(q, p)})

RECURSIVE Visits(_)
\* the number of entries a scan of the roots in list r visits at most
Visits(r) == IF r = <<>> THEN 0 ELSE SubtreeSize(Head(r)) + Visits(Tail(r))

RootLists == {r \in UNION {[1..n -> Paths] : n \in 1..MaxRoots} : Visits(r) <= MaxVisits}

EmptyMap == [x \in {} |-> 0]

InitScan ==
    /\ root_directories \in RootLists
    /\ num_threads \in 1..MaxThreads
    /\ filesize_type \in {"DiskUsage", "ApparentSize"}
    /\ fs \in FileSystems
    /\ previous = <<>>
    /\ item = [i \in Items |-> IF i[2] = root_directories[i[1]] THEN "pending" ELSE "none"]
    /\ stack = [w \in Workers |-> <<>>]
    /\ sent = <<>>
    /\ origin = <<>>
    /\ rcvd = 0
    /\ closed = FALSE
    /\ ids = {}
    /\ sizes = EmptyMap
    /\ error_messages = <<>>
    /\ result = None
    /\ p_ids = {}
    /\ p_sizes = EmptyMap
    /\ tainted_results = FALSE
    /\ output = <<>>
    /\ p_returned = FALSE
    /\ halt = "no"
    /\ p_halt = "no"
    /\ wrapped = FALSE

Init ==
    /\ InitScan
    /\ opts = [total |-> FALSE, verbose |-> FALSE]

(***************************************************************************)
(* The traversal: root_walk and walk on the rayon pool.                    *)
(*                                                                         *)
(* Each element of a parallel iterator is an item that any worker may      *)
(* take.  A worker that waits for the items of a nested walk keeps its     *)
(* frame on its stack and takes other items meanwhile; the frame returns   *)
(* when it is on top again and all its items are done.  Which worker takes *)
(* which item is left open: rayon's work stealing decides it at run time.  *)
(*                                                                         *)
(* An item is "none" (not dispatched), "pending" (dispatched, not taken),  *)
(* "visited" (its SizeEntry is sent, the directory is not yet listed),     *)
(* "joining" (the nested walk waits for its items), "returned" (the        *)
(* depth-0 walk has still to send FinishedEntry) or "done".                *)
(*                                                                         *)
(* Once the call has ended in a panic or an exit (halt, p_halt), no thread *)
(* of it takes a step any more.                                            *)
(***************************************************************************)
Top(w) == stack[w][Len(stack[w])]

Pop(w) == [stack EXCEPT ![w] = SubSeq(@, 1, Len(@) - 1)]

Push(w, i) == [stack EXCEPT ![w] = Append(@, i)]

\* the items a nested walk of item <<k, p>> dispatched are all done
ChildrenDone(k, p) == \A c \in ChildrenOf(p) : item[<<k, c>>] \in {"none", "done"}

\* CanTake for a worker that only blocks while it waits in a join
CanTake_IdleOnly(w) == stack[w] = <<>>

\* a worker takes an item when it is idle or waits in a join
CanTake(w) ==
    \/ stack[w] = <<>>
    \/ /\ stack[w] # <<>>
       /\ item[Top(w)] = "joining"
       /\ ~ChildrenDone(Top(w)[1], Top(w)[2])

\* AfterEntry without the test depth == 0: every walk call sends FinishedEntry
AfterEntry_AnyDepth(k, p) == "returned"

\* what is left of an item once its entry is dealt with: the depth-0 walk
\* still has its FinishedEntry to send
AfterEntry(k, p) == IF DepthOf(p, root_directories[k]) = 0 THEN "returned" ELSE "done"

\* Visit that credits every entry to the first root of the list
Visit_FirstRoot(w, k, p) ==
    /\ Running
    /\ CanTake(w)
    /\ item[<<k, p>>] = "pending"
    /\ LET root == root_directories[1]
           metadata == Metadata(p)
       IN  IF p \in fs.noMeta
           THEN /\ Send(ErrorMsg("NoMetadataForPath", p), k, p)
                /\ item' = [item EXCEPT ![<<k, p>>] = AfterEntry(k, p)]
                /\ stack' = IF AfterEntry(k, p) = "done" THEN stack ELSE Push(w, <<k, p>>)
           ELSE /\ Send(SizeEntry(generate_unique_id(metadata), root,
                                  FileSize(filesize_type, metadata)), k, p)
                /\ IF metadata.is_dir
                   THEN /\ item' = [item EXCEPT ![<<k, p>>] = "visited"]
                        /\ stack' = Push(w, <<k, p>>)
                   ELSE /\ item' = [item EXCEPT ![<<k, p>>] = AfterEntry(k, p)]
                        /\ stack' = IF AfterEntry(k, p) = "done" THEN stack
                                    ELSE Push(w, <<k, p>>)
    /\ UNCHANGED <<inputVars, procVars, runVars, printVars, opts>>

\* Visit that reports the failed symlink_metadata and then goes on as if it
\* had succeeded
Visit_GoesOnAfterError(w, k, p) ==
    /\ Running
    /\ CanTake(w)
    /\ item[<<k, p>>] = "pending"
    /\ LET root == root_directories[k]
           metadata == Metadata(p)
       IN  /\ IF p \in fs.noMeta
              THEN /\ sent' = sent \o <<ErrorMsg("NoMetadataForPath", p),
                                       SizeEntry(generate_unique_id(metadata), root,
                                                 FileSize(filesize_type, metadata))>>
                   /\ origin' = origin \o <<<<k, p>>, <<k, p>>>>
                   /\ UNCHANGED <<rcvd, closed>>
              ELSE Send(SizeEntry(generate_unique_id(metadata), root,
                                  FileSize(filesize_type, metadata)), k, p)
           /\ IF metadata.is_dir
              THEN /\ item' = [item EXCEPT ![<<k, p>>] = "visited"]
                   /\ stack' = Push(w, <<k, p>>)
              ELSE /\ item' = [item EXCEPT ![<<k, p>>] = AfterEntry(k, p)]
                   /\ stack' = IF AfterEntry(k, p) = "done" THEN stack
                               ELSE Push(w, <<k, p>>)
    /\ UNCHANGED <<inputVars, procVars, runVars, printVars, opts>>

\* walk, lines 116-123 and 150-156: stat the entry and send its SizeEntry, or
\* the NoMetadataForPath error
Visit(w, k, p) ==
    /\ Running
    /\ CanTake(w)
    /\ item[<<k, p>>] = "pending"
    /\ LET root == root_directories[k]
           metadata == Metadata(p)
       IN  IF p \in fs.noMeta
           THEN /\ Send(ErrorMsg("NoMetadataForPath", p), k, p)
                /\ item' = [item EXCEPT ![<<k, p>>] = AfterEntry(k, p)]
                /\ stack' = IF AfterEntry(k, p) = "done" THEN stack ELSE Push(w, <<k, p>>)
           ELSE /\ Send(SizeEntry(generate_unique_id(metadata), root,
                                  FileSize(filesize_type, metadata)), k, p)
                /\ IF metadata.is_dir
                   THEN /\ item' = [item EXCEPT ![<<k, p>>] = "visited"]
                        /\ stack' = Push(w, <<k, p>>)
                   ELSE /\ item' = [item EXCEPT ![<<k, p>>] = AfterEntry(k, p)]
                        /\ stack' = IF AfterEntry(k, p) = "done" THEN stack
                                    ELSE Push(w, <<k, p>>)
    /\ UNCHANGED <<inputVars, procVars, runVars, printVars, opts>>

\* child_entries.flatten(), lines 128-132: the entries of the listing of p
\* that come before its first Err.  ReadDir ends the listing at an Err (the
\* next call returns None), so flatten() loses the failing entry and every
\* entry behind it in the order of the file system.
Flatten(p) ==
    {c \in ChildrenOf(p) : \A b \in ChildrenOf(p) \cap fs.badEntry : fs.order[c] < fs.order[b]}

\* ListedChildren that loses the last entry of every listing
ListedChildren_DropLast(p) ==
    IF p \in fs.noRead THEN {}
    ELSE {c \in Flatten(p) : \E c2 \in Flatten(p) : fs.order[c2] > fs.order[c]}

\* ListedChildren that descends into a directory although read_dir failed
ListedChildren_IgnoreError(p) == Flatten(p)

\* the children pushed for the nested walk: none when read_dir fails
ListedChildren(p) == IF p \in fs.noRead THEN {} ELSE Flatten(p)

\* walk, lines 125-148: list the directory, send CouldNotReadDir on failure,
\* and dispatch the nested walk over the children
ReadDir(w) ==
    /\ Running
    /\ stack[w] # <<>>
    /\ item[Top(w)] = "visited"
    /\ LET k == Top(w)[1]
           p == Top(w)[2]
       IN  /\ IF p \in fs.noRead
              THEN Send(ErrorMsg("CouldNotReadDir", p), k, p)
              ELSE UNCHANGED chanVars
           /\ item' = [i \in Items |->
                         IF i = <<k, p>> THEN "joining"
                         ELSE IF i[1] = k /\ i[2] \in ListedChildren(p) THEN "pending"
                         ELSE item[i]]
    /\ UNCHANGED <<inputVars, procVars, stack, runVars, printVars, opts>>

\* Join that does not wait for the items of the nested walk
Join_NoWait(w) ==
    /\ Running
    /\ stack[w] # <<>>
    /\ item[Top(w)] = "joining"
    /\ LET k == Top(w)[1]
           p == Top(w)[2]
       IN  /\ item' = [item EXCEPT ![<<k, p>>] = AfterEntry(k, p)]
           /\ stack' = IF AfterEntry(k, p) = "done" THEN Pop(w) ELSE stack
    /\ UNCHANGED <<inputVars, procVars, chanVars, runVars, printVars, opts>>

\* the nested walk returns: for_each_with has joined all its items
Join(w) ==
    /\ Running
    /\ stack[w] # <<>>
    /\ item[Top(w)] = "joining"
    /\ ChildrenDone(Top(w)[1], Top(w)[2])
    /\ LET k == Top(w)[1]
           p == Top(w)[2]
       IN  /\ item' = [item EXCEPT ![<<k, p>>] = AfterEntry(k, p)]
           /\ stack' = IF AfterEntry(k, p) = "done" THEN Pop(w) ELSE stack
    /\ UNCHANGED <<inputVars, procVars, chanVars, runVars, printVars, opts>>

\* walk, lines 158-160: the depth-0 call sends FinishedEntry
Finish(w) ==
    /\ Running
    /\ stack[w] # <<>>
    /\ item[Top(w)] = "returned"
    /\ LET k == Top(w)[1]
           p == Top(w)[2]
       IN  /\ Send(FinishedEntry(root_directories[k]), k, p)
           /\ item' = [item EXCEPT ![<<k, p>>] = "done"]
           /\ stack' = Pop(w)
    /\ UNCHANGED <<inputVars, procVars, runVars, printVars, opts>>

\* root_walk and pool.install return: the last Sender is dropped
AllRootsDone == \A k \in Roots : item[<<k, root_directories[k]>>] = "done"

Close ==
    /\ Running
    /\ ~closed
    /\ AllRootsDone
    /\ closed' = TRUE
    /\ UNCHANGED <<inputVars, procVars, poolVars, sent, origin, rcvd, runVars, printVars, opts>>

Walker ==
    \/ \E w \in Workers : \E k \in Roots : \E p \in Paths : Visit(w, k, p)
    \/ \E w \in Workers : ReadDir(w)
    \/ \E w \in Workers : Join(w)
    \/ \E w \in Workers : Finish(w)
    \/ Close

(***************************************************************************)
(* The receiver thread of Walk::run.                                       *)
(***************************************************************************)
\* AddSize with the accumulation lost: the entry is replaced, not added to
AddSize_Overwrite(map, root, size) ==
    [r \in DOMAIN map \cup {root} |-> IF r = root THEN size ELSE map[r]]

\* sizes.entry(root).and_modify(|tot| *tot += size).or_insert(size), where
\* the addition does not panic
AddSize(map, root, size) ==
    IF root \in DOMAIN map
    THEN [map EXCEPT ![root] = Wrap64(@ + size)]
    ELSE [r \in DOMAIN map \cup {root} |-> IF r = root THEN size ELSE map[r]]

\* `*tot += size` passes the largest u64
AddOverflows(map, root, size) == root \in DOMAIN map /\ Overflows(map[root], size)

\* lines 194-197 and 200-203: the size is added to the root's total; on
\* overflow the addition wraps, or panics in a build that checks it
RunAdd(root, size) ==
    \/ /\ sizes' = AddSize(sizes, root, size)
       /\ wrapped' = (wrapped \/ AddOverflows(sizes, root, size))
       /\ UNCHANGED halt
    \/ /\ AddOverflows(sizes, root, size)
       /\ ~wrapped
       /\ halt' = "panic"
       /\ sizes' = sizes
       /\ wrapped' = wrapped

\* RunHandle without the test of ids.insert: every SizeEntry is counted
RunHandle_NoDedup(msg) ==
    /\ IF msg.type = "SizeEntry"
       THEN /\ RunAdd(msg.root, msg.size)
            /\ ids' = IF msg.unique_id # None THEN ids \cup {msg.unique_id[1]} ELSE ids
       ELSE UNCHANGED <<ids, sizes, halt, wrapped>>
    /\ IF msg.type = "Error"
       THEN error_messages' = Append(error_messages, msg.error)
       ELSE UNCHANGED error_messages
    /\ UNCHANGED result

\* RunHandle that does not keep the errors
RunHandle_DropsErrors(msg) ==
    /\ IF msg.type = "SizeEntry"
       THEN IF msg.unique_id # None
            THEN IF msg.unique_id[1] \notin ids
                 THEN /\ ids' = ids \cup {msg.unique_id[1]}
                      /\ RunAdd(msg.root, msg.size)
                 ELSE UNCHANGED <<ids, sizes, halt, wrapped>>
            ELSE /\ RunAdd(msg.root, msg.size)
                 /\ UNCHANGED ids
       ELSE UNCHANGED <<ids, sizes, halt, wrapped>>
    /\ UNCHANGED error_messages
    /\ UNCHANGED result

\* Walk::run, lines 190-211: one iteration of the receive loop
RunHandle(msg) ==
    /\ IF msg.type = "SizeEntry"
       THEN IF msg.unique_id # None
            THEN IF msg.unique_id[1] \notin ids
                 THEN /\ ids' = ids \cup {msg.unique_id[1]}
                      /\ RunAdd(msg.root, msg.size)
                 ELSE UNCHANGED <<ids, sizes, halt, wrapped>>
            ELSE /\ RunAdd(msg.root, msg.size)
                 /\ UNCHANGED ids
       ELSE UNCHANGED <<ids, sizes, halt, wrapped>>
    /\ IF msg.type = "Error"
       THEN error_messages' = Append(error_messages, msg.error)
       ELSE UNCHANGED error_messages
    /\ UNCHANGED result

RunRecv ==
    /\ Running
    /\ rcvd < Len(sent)
    /\ result = None
    /\ RunHandle(sent[rcvd + 1])
    /\ rcvd' = rcvd + 1
    /\ UNCHANGED <<inputVars, poolVars, sent, origin, closed, printVars, opts, p_halt>>

\* the orders in which a HashMap may be iterated
Orderings(map) ==
    {s \in [1..Cardinality(DOMAIN map) -> DOMAIN map] :
        \A i, j \in 1..Cardinality(DOMAIN map) : i # j => s[i] # s[j]}

\* RunReturn that does not wait for the queued messages
RunReturn_Early ==
    /\ Running
    /\ closed
    /\ result = None
    /\ \E s \in Orderings(sizes) :
          result' = Some([sizes_vec |-> [i \in DOMAIN s |-> <<s[i], sizes[s[i]]>>],
                          errors |-> error_messages])
    /\ UNCHANGED <<inputVars, procVars, poolVars, chanVars, ids, sizes, error_messages, printVars, opts>>

\* Walk::run, lines 213-217: the channel is disconnected and empty
RunReturn ==
    /\ Running
    /\ closed
    /\ rcvd = Len(sent)
    /\ result = None
    /\ \E s \in Orderings(sizes) :
          result' = Some([sizes_vec |-> [i \in DOMAIN s |-> <<s[i], sizes[s[i]]>>],
                          errors |-> error_messages])
    /\ UNCHANGED <<inputVars, procVars, poolVars, chanVars, ids, sizes, error_messages, printVars, opts>>

Next == Walker \/ RunRecv \/ RunReturn

Spec == Init /\ [][Next]_vars

\* Walk::run is called again with the same roots on the same, unmodified file
\* system (the worker count may differ): lines 183-188 and 220-224 build a
\* new channel, new receiver collections and a new pool
\* StartScan that keeps the set of identities of the scan before
StartScan_KeepSeen(roots) ==
    /\ Running
    /\ result # None
    /\ previous' = Append(previous, [roots |-> root_directories, totals |-> sizes])
    /\ root_directories' = roots
    /\ num_threads' \in 1..MaxThreads
    /\ item' = [i \in (1..Len(roots)) \X Paths |->
                  IF i[2] = roots[i[1]] THEN "pending" ELSE "none"]
    /\ stack' = [w \in 1..num_threads' |-> <<>>]
    /\ sent' = <<>>
    /\ origin' = <<>>
    /\ rcvd' = 0
    /\ closed' = FALSE
    /\ ids' = ids
    /\ sizes' = EmptyMap
    /\ error_messages' = <<>>
    /\ result' = None
    /\ UNCHANGED <<filesize_type, fs, printVars, opts, procVars>>

\* Walk::new and Walk::run, lines 170-188 and 220-224: a scan of the list
\* roots starts after the current one has returned
StartScan(roots) ==
    /\ Running
    /\ result # None
    /\ previous' = Append(previous, [roots |-> root_directories, totals |-> sizes])
    /\ root_directories' = roots
    /\ num_threads' \in 1..MaxThreads
    /\ item' = [i \in (1..Len(roots)) \X Paths |->
                  IF i[2] = roots[i[1]] THEN "pending" ELSE "none"]
    /\ stack' = [w \in 1..num_threads' |-> <<>>]
    /\ sent' = <<>>
    /\ origin' = <<>>
    /\ rcvd' = 0
    /\ closed' = FALSE
    /\ ids' = {}
    /\ sizes' = EmptyMap
    /\ error_messages' = <<>>
    /\ result' = None
    /\ UNCHANGED <<filesize_type, fs, printVars, opts, procVars>>

Rescan ==
    /\ previous = <<>>
    /\ StartScan(root_directories)

NextTwice == Next \/ Rescan

SpecTwice == Init /\ [][NextTwice]_vars

\* after a scan of two roots, each of the two is scanned alone
ScanAlone ==
    \/ /\ previous = <<>>
       /\ Len(root_directories) = 2
       /\ StartScan(<<root_directories[1]>>)
    \/ /\ Len(previous) = 1
       /\ StartScan(<<previous[1].roots[2]>>)

InitSplit == Init /\ Len(root_directories) = 2

NextSplit == Next \/ ScanAlone

SpecSplit == InitSplit /\ [][NextSplit]_vars

\* every thread that can take a step eventually takes one: the pool's workers
\* and the receiver are operating-system threads, none of which waits for
\* anything but the joins and the channel modelled here
FairSpec == Init /\ [][Next]_vars /\ WF_vars(Next)


(***************************************************************************)
(* The receiver thread of Walk::run_and_print.  output is what the process *)
(* has written so far, one element per line, standard output and standard  *)
(* error in the order of the writes; the field to names the stream.        *)
(***************************************************************************)
\* eprintln!: the line l is written to standard error, or the write fails
\* and the macro panics
Eprintln(l) == {[lines |-> <<l>>, halt |-> "no"], [lines |-> <<>>, halt |-> "panic"]}

\* print_result, lines 35-52: the eprintln! of the error, if one is given
ErrorLines(error) ==
    IF error # None
    THEN Eprintln([to |-> "stderr", line |-> "error", error |-> error[1]])
    ELSE {[lines |-> <<>>, halt |-> "no"]}

\* print_result with safe_write, lines 18-27 and 29-81: the lines written
\* and how the call goes on.  With a size, path.to_str().unwrap() panics for
\* a path that is not UTF-8; the write to standard output succeeds, or
\* fails with a broken pipe (exit(0)), or fails otherwise (eprintln! of
\* "Unexpected err", then exit(1)).  The path "" of the callers is path 0.
print_result(path, size, error) ==
    UNION {
        IF e.halt # "no" \/ size = None THEN {e}
        ELSE IF path \in fs.notUtf8 THEN {[lines |-> e.lines, halt |-> "panic"]}
        ELSE {[lines |-> e.lines
                         \o <<[to |-> "stdout", line |-> "size", path |-> path,
                               size |-> size[1]]>>,
               halt |-> "no"],
              [lines |-> e.lines, halt |-> "exit0"]}
             \cup {[lines |-> e.lines \o u.lines,
                    halt |-> IF u.halt = "no" THEN "exit1" ELSE u.halt] :
                     u \in Eprintln([to |-> "stderr", line |-> "Unexpected err"])}
        : e \in ErrorLines(error)}

\* sizes.get(&path).map(|s| s.to_owned())
Get(map, key) == IF key \in DOMAIN map THEN Some(map[key]) ELSE None

\* lines 273-276 and 279-282: as RunAdd, on the map of run_and_print
PrintAdd(root, size) ==
    \/ /\ p_sizes' = AddSize(p_sizes, root, size)
       /\ wrapped' = (wrapped \/ AddOverflows(p_sizes, root, size))
       /\ UNCHANGED p_halt
    \/ /\ AddOverflows(p_sizes, root, size)
       /\ ~wrapped
       /\ p_halt' = "panic"
       /\ p_sizes' = p_sizes
       /\ wrapped' = wrapped

\* PrintHandle without the test of ids.insert: every SizeEntry is counted
PrintHandle_NoDedup(msg) ==
    /\ IF msg.type = "SizeEntry"
       THEN /\ PrintAdd(msg.root, msg.size)
            /\ p_ids' = IF msg.unique_id # None THEN p_ids \cup {msg.unique_id[1]} ELSE p_ids
       ELSE UNCHANGED <<p_ids, p_sizes, wrapped>>
    /\ IF msg.type = "Error"
       THEN IF opts.verbose
            THEN /\ \E o \in print_result(0, None, Some(msg.error)) :
                        output' = output \o o.lines /\ p_halt' = o.halt
                 /\ UNCHANGED tainted_results
            ELSE /\ tainted_results' = TRUE
                 /\ UNCHANGED <<output, p_halt>>
       ELSE IF msg.type = "FinishedEntry"
            THEN /\ \E o \in print_result(msg.path, Get(p_sizes, msg.path), None) :
                        output' = output \o o.lines /\ p_halt' = o.halt
                 /\ UNCHANGED tainted_results
            ELSE UNCHANGED <<output, tainted_results>>
    /\ UNCHANGED p_returned

\* Walk::run_and_print, lines 269-299: one iteration of the receive loop
PrintHandle(msg) ==
    /\ IF msg.type = "SizeEntry"
       THEN IF msg.unique_id # None
            THEN IF msg.unique_id[1] \notin p_ids
                 THEN /\ p_ids' = p_ids \cup {msg.unique_id[1]}
                      /\ PrintAdd(msg.root, msg.size)
                 ELSE UNCHANGED <<p_ids, p_sizes, p_halt, wrapped>>
            ELSE /\ PrintAdd(msg.root, msg.size)
                 /\ UNCHANGED p_ids
       ELSE UNCHANGED <<p_ids, p_sizes, wrapped>>
    /\ IF msg.type = "Error"
       THEN IF opts.verbose
            THEN /\ \E o \in print_result(0, None, Some(msg.error)) :
                        output' = output \o o.lines /\ p_halt' = o.halt
                 /\ UNCHANGED tainted_results
            ELSE /\ tainted_results' = TRUE
                 /\ UNCHANGED <<output, p_halt>>
       ELSE IF msg.type = "FinishedEntry"
            THEN /\ \E o \in print_result(msg.path, Get(p_sizes, msg.path), None) :
                        output' = output \o o.lines /\ p_halt' = o.halt
                 /\ UNCHANGED tainted_results
            ELSE UNCHANGED <<output, tainted_results>>
    /\ UNCHANGED p_returned

PrintRecv ==
    /\ Running
    /\ rcvd < Len(sent)
    /\ ~p_returned
    /\ PrintHandle(sent[rcvd + 1])
    /\ rcvd' = rcvd + 1
    /\ UNCHANGED <<inputVars, poolVars, sent, origin, closed, runVars, opts, halt>>

RECURSIVE IntSum(_)
\* the sum of the integers that hold the totals of a map
IntSum(map) ==
    IF DOMAIN map = {} THEN 0
    ELSE LET r == CHOOSE x \in DOMAIN map : TRUE
         IN  map[r] + IntSum([x \in DOMAIN map \ {r} |-> map[x]])

\* sizes.values().sum(), where the sum does not panic: a u64 sum
SumValues(map) == Wrap64(IntSum(map))

\* sizes.values().sum() passes the largest u64: the sum of the values is
\* IntSum(map) and 2^64 more for every total from 2^63 on
SumOverflows(map) ==
    LET large == Cardinality({r \in DOMAIN map : map[r] < 0})
    IN  IF large = 0 THEN High(IntSum(map)) >= Quarter
        ELSE IF large = 1 THEN IntSum(map) >= 0
        ELSE TRUE

\* lines 255-258 and 309-313: the total n is reported.  A sum that passes
\* the largest u64 (over) has panicked in a build that checks it (checked
\* tells whether the build may be one); println! panics when the write
\* fails.
PrintTotal(n, over, checked) ==
    (IF over /\ checked
     THEN {[lines |-> <<>>, halt |-> "panic", wraps |-> FALSE]} ELSE {})
    \cup {[lines |-> <<>>, halt |-> "panic", wraps |-> over]}
    \cup {[lines |-> <<[to |-> "stdout", line |-> "Total:"]>> \o o.lines, halt |-> o.halt,
           wraps |-> over] :
            o \in print_result(0, Some(n), None)}

\* lines 242-247 and 302-307: the eprintln! of the warning, if it is due
Warning(warn) ==
    IF warn THEN Eprintln([to |-> "stderr", line |-> "warning"])
    ELSE {[lines |-> <<>>, halt |-> "no"]}

\* lines 302-313: the warning, then the total if it is asked for
Epilogue(warn, total, n, over) ==
    UNION {
        IF h.halt # "no" THEN {[lines |-> h.lines, halt |-> h.halt, wraps |-> FALSE]}
        ELSE IF total
        THEN {[lines |-> h.lines \o t.lines, halt |-> t.halt, wraps |-> t.wraps] :
                t \in PrintTotal(n, over, ~wrapped)}
        ELSE {[lines |-> h.lines, halt |-> "no", wraps |-> FALSE]}
        : h \in Warning(warn)}

\* PrintReturn that does not wait for the end of the stream
PrintReturn_Early ==
    /\ Running
    /\ ~p_returned
    /\ \E e \in Epilogue(tainted_results, opts.total,
                          SumValues(p_sizes), SumOverflows(p_sizes)) :
          /\ output' = output \o e.lines
          /\ p_halt' = e.halt
          /\ p_returned' = (e.halt = "no")
          /\ wrapped' = (wrapped \/ e.wraps)
    /\ UNCHANGED <<inputVars, poolVars, chanVars, runVars, p_ids, p_sizes, tainted_results,
                   opts, halt>>

\* Walk::run_and_print, lines 302-313: the channel is disconnected and empty
PrintReturn ==
    /\ Running
    /\ closed
    /\ rcvd = Len(sent)
    /\ ~p_returned
    /\ \E e \in Epilogue(tainted_results, opts.total,
                          SumValues(p_sizes), SumOverflows(p_sizes)) :
          /\ output' = output \o e.lines
          /\ p_halt' = e.halt
          /\ p_returned' = (e.halt = "no")
          /\ wrapped' = (wrapped \/ e.wraps)
    /\ UNCHANGED <<inputVars, poolVars, chanVars, runVars, p_ids, p_sizes, tainted_results,
                   opts, halt>>

\* main.rs, lines 77-93: main calls run_and_print in either size mode, with
\* or without --total and --verbose
InitPrint ==
    /\ InitScan
    /\ opts \in [total : BOOLEAN, verbose : BOOLEAN]

NextPrint == Walker \/ PrintRecv \/ PrintReturn

SpecPrint == InitPrint /\ [][NextPrint]_vars

(***************************************************************************)
(* Walk::run_and_print_sorted: Walk::run, then the report.                 *)
(***************************************************************************)
RECURSIVE InsertBySize(_, _)
\* the place sort_by gives the pair x in the sorted list vec: behind the
\* pairs of a smaller or equal size (the sort is stable)
InsertBySize(x, vec) ==
    IF vec = <<>> THEN <<x>>
    ELSE IF Leq64(vec[Len(vec)][2], x[2]) THEN Append(vec, x)
    ELSE Append(InsertBySize(x, SubSeq(vec, 1, Len(vec) - 1)), vec[Len(vec)])

RECURSIVE SortBySize(_)
\* sizes.sort_by(|(_p1, s1), (_p2, s2)| s1.cmp(s2)), line 236
SortBySize(vec) ==
    IF vec = <<>> THEN <<>>
    ELSE InsertBySize(vec[Len(vec)], SortBySize(SubSeq(vec, 1, Len(vec) - 1)))

RECURSIVE PrintErrors(_)
\* lines 239-241: print_result("", None, Some(err), None) for every error,
\* which writes the line of the error; the loop ends where a write panics
PrintErrors(errors) ==
    IF errors = <<>> THEN {[lines |-> <<>>, halt |-> "no"]}
    ELSE UNION {
             IF o.halt # "no" THEN {o}
             ELSE {[lines |-> o.lines \o r.lines, halt |-> r.halt] :
                     r \in PrintErrors(Tail(errors))}
             : o \in print_result(0, None, Some(Head(errors)))}

RECURSIVE SumSeq(_)
\* total_size of lines 249-252 after the pairs of vec, where no addition
\* panics: a u64 sum
SumSeq(vec) ==
    IF vec = <<>> THEN 0
    ELSE Wrap64(SumSeq(SubSeq(vec, 1, Len(vec) - 1)) + vec[Len(vec)][2])

RECURSIVE SortedLoop(_, _, _)
\* lines 249-253, from the i-th pair of vec on: total_size += size, which
\* panics on overflow in a build that checks it (checked), then print_result
SortedLoop(vec, i, checked) ==
    IF i > Len(vec) THEN {[lines |-> <<>>, halt |-> "no", wraps |-> FALSE]}
    ELSE LET over == Overflows(SumSeq(SubSeq(vec, 1, i - 1)), vec[i][2])
         IN  (IF over /\ checked THEN {[lines |-> <<>>, halt |-> "panic", wraps |-> FALSE]}
              ELSE {})
             \cup UNION {
                 IF o.halt # "no"
                 THEN {[lines |-> o.lines, halt |-> o.halt, wraps |-> over]}
                 ELSE {[lines |-> o.lines \o r.lines, halt |-> r.halt,
                        wraps |-> over \/ r.wraps] :
                         r \in SortedLoop(vec, i + 1, checked /\ ~over)}
                 : o \in print_result(vec[i][1], Some(vec[i][2]), None)}

\* PrintSorted that shows the warning whenever the error list is not empty
PrintSorted_WarnAlways ==
    /\ Running
    /\ result # None
    /\ ~p_returned
    /\ LET sorted == SortBySize(result[1].sizes_vec)
           errors == result[1].errors
           shown == IF opts.verbose THEN PrintErrors(errors)
                    ELSE {[lines |-> <<>>, halt |-> "no"]}
           heads == UNION {IF o.halt # "no" THEN {o}
                           ELSE {[lines |-> o.lines \o w.lines, halt |-> w.halt] :
                                   w \in Warning(errors # <<>>)}
                           : o \in shown}
       IN  \E h \in heads :
              IF h.halt # "no"
              THEN /\ output' = output \o h.lines
                   /\ halt' = h.halt
                   /\ UNCHANGED <<p_returned, wrapped>>
              ELSE \E l \in SortedLoop(sorted, 1, ~wrapped) :
                     /\ wrapped' = (wrapped \/ l.wraps)
                     /\ IF l.halt # "no"
                        THEN /\ output' = output \o h.lines \o l.lines
                             /\ halt' = l.halt
                             /\ UNCHANGED p_returned
                        ELSE \E e \in Epilogue(FALSE, opts.total, SumSeq(sorted), FALSE) :
                                /\ output' = output \o h.lines \o l.lines \o e.lines
                                /\ halt' = e.halt
                                /\ p_returned' = (e.halt = "no")
    /\ UNCHANGED <<inputVars, poolVars, chanVars, runVars, p_ids, p_sizes, tainted_results,
                   opts, p_halt>>

\* Walk::run_and_print_sorted, lines 236-258: the report that follows
\* self.run()
PrintSorted ==
    /\ Running
    /\ result # None
    /\ ~p_returned
    /\ LET sorted == SortBySize(result[1].sizes_vec)
           errors == result[1].errors
           heads == IF opts.verbose THEN PrintErrors(errors) ELSE Warning(errors # <<>>)
       IN  \E h \in heads :
              IF h.halt # "no"
              THEN /\ output' = output \o h.lines
                   /\ halt' = h.halt
                   /\ UNCHANGED <<p_returned, wrapped>>
              ELSE \E l \in SortedLoop(sorted, 1, ~wrapped) :
                     /\ wrapped' = (wrapped \/ l.wraps)
                     /\ IF l.halt # "no"
                        THEN /\ output' = output \o h.lines \o l.lines
                             /\ halt' = l.halt
                             /\ UNCHANGED p_returned
                        ELSE \E e \in Epilogue(FALSE, opts.total, SumSeq(sorted), FALSE) :
                                /\ output' = output \o h.lines \o l.lines \o e.lines
                                /\ halt' = e.halt
                                /\ p_returned' = (e.halt = "no")
    /\ UNCHANGED <<inputVars, poolVars, chanVars, runVars, p_ids, p_sizes, tainted_results,
                   opts, p_halt>>

\* the caller calls run_and_print or run_and_print_sorted, in either size
\* mode, with or without the total and verbose
InitShow ==
    /\ InitScan
    /\ opts \in [total : BOOLEAN, verbose : BOOLEAN,
                  method : {"run_and_print", "run_and_print_sorted"}]

NextShow ==
    \/ Walker
    \/ opts.method = "run_and_print" /\ PrintRecv
    \/ opts.method = "run_and_print" /\ PrintReturn
    \/ opts.method = "run_and_print_sorted" /\ RunRecv
    \/ opts.method = "run_and_print_sorted" /\ RunReturn
    \/ opts.method = "run_and_print_sorted" /\ PrintSorted

SpecShow == InitShow /\ [][NextShow]_vars

(***************************************************************************)
(* The two receive loops fed the same, arbitrary, stream of messages.      *)
(***************************************************************************)
FeedMessages ==
    {SizeEntry(id, r, z) : id \in {None} \cup {Some(i) : i \in 1..MaxIds},
                           r \in 1..MaxRoots, z \in (0..MaxSize) \cup {U64Max}}
    \cup {FinishedEntry(r) : r \in 1..MaxRoots}
    \cup {ErrorMsg(kind, 1) : kind \in {"NoMetadataForPath", "CouldNotReadDir"}}

\* the message msg arrives at both loops: each call that has not ended
\* runs one iteration of its loop on it; a call that has ended in a panic
\* or an exit takes no message any more, while the other goes on
Feed(msg) ==
    /\ halt = "no" \/ p_halt = "no"
    /\ Len(sent) < MaxMsgs
    /\ sent' = Append(sent, msg)
    /\ origin' = Append(origin, <<0, 0>>)
    /\ rcvd' = rcvd + 1
    /\ IF halt = "no" THEN RunHandle(msg) ELSE UNCHANGED <<runVars, halt>>
    /\ IF p_halt = "no" THEN PrintHandle(msg) ELSE UNCHANGED <<printVars, p_halt>>
    /\ UNCHANGED <<inputVars, poolVars, closed, opts>>

InitAgg ==
    /\ InitScan
    /\ root_directories = <<NumPaths>>
    /\ num_threads = 1
    /\ filesize_type = "DiskUsage"
    /\ fs.noMeta = {} /\ fs.noRead = {} /\ fs.badEntry = {} /\ fs.notUtf8 = {}
    /\ fs.ino = [p \in Paths |-> p]
    /\ fs.ids
    /\ opts \in [total : {FALSE}, verbose : BOOLEAN]

NextAgg == \E msg \in FeedMessages : Feed(msg)

SpecAgg == InitAgg /\ [][NextAgg]_vars


(***************************************************************************)
(* Properties.                                                             *)
(***************************************************************************)
\* the messages the receiver has processed are sent[1..rcvd]
IsSizeEntry(i) == sent[i].type = "SizeEntry"

\* message i is a SizeEntry without identity, or the first one in arrival
\* order that carries its identity
FirstOfId(i) ==
    /\ IsSizeEntry(i)
    /\ \/ sent[i].unique_id = None
       \/ \A j \in 1..(i - 1) : ~(IsSizeEntry(j) /\ sent[j].unique_id = sent[i].unique_id)

RECURSIVE SumSizes(_)
\* the sum of the sizes of the messages whose indices are in S
SumSizes(S) ==
    IF S = {} THEN 0
    ELSE LET i == CHOOSE x \in S : TRUE IN sent[i].size + SumSizes(S \ {i})

CountedFor(r) == {i \in 1..rcvd : FirstOfId(i) /\ sent[i].root = r}

CountingRule(map, seen) ==
    /\ DOMAIN map = {sent[i].root : i \in {j \in 1..rcvd : FirstOfId(j)}}
    /\ \A r \in DOMAIN map : map[r] = Wrap64(SumSizes(CountedFor(r)))
    /\ seen = {sent[i].unique_id[1] : i \in {j \in 1..rcvd : IsSizeEntry(j) /\ sent[j].unique_id # None}}

\* C1: in both receive loops, after every message a loop has processed, the
\* total of a root is the u64 sum of the sizes of the SizeEntry messages of
\* that root that carry no identity or are the first in arrival order to
\* carry theirs; a later SizeEntry with a seen identity adds nothing to any
\* root, and the SeenSet holds the identities received.  The iteration in
\* which the addition panics is the one exception: it ends the call.
C1_CountingRule ==
    [][rcvd' = rcvd + 1 =>
          LET msg == sent'[rcvd']
          IN  /\ (halt = "no" /\ ~(msg.type = "SizeEntry" /\ halt' = "panic")) =>
                     CountingRule(sizes, ids)'
              /\ (p_halt = "no" /\ ~(msg.type = "SizeEntry" /\ p_halt' = "panic")) =>
                     CountingRule(p_sizes, p_ids)']_vars

\* C1 witness: a second SizeEntry with a seen identity, for another root and
\* of non-zero size, was ignored, and an id-less SizeEntry was received
C1_Witness ==
    /\ rcvd = 3
    /\ \E i, j \in 1..rcvd :
          /\ i < j /\ IsSizeEntry(i) /\ IsSizeEntry(j)
          /\ sent[i].unique_id # None /\ sent[i].unique_id = sent[j].unique_id
          /\ sent[i].root # sent[j].root /\ sent[j].size > 0
          /\ sent[j].root \notin DOMAIN sizes
          /\ sent[j].root \notin DOMAIN p_sizes
    /\ \E i \in 1..rcvd : IsSizeEntry(i) /\ sent[i].unique_id = None


RECURSIVE Reached(_, _)
\* the traversal from root r gets to path p: every directory from r down to
\* the parent of p could be read, and the listing yielded p
Reached(p, r) ==
    IF p = r THEN TRUE
    ELSE IF p <= 1 THEN FALSE
    ELSE /\ Reached(Parent(p), r)
         /\ Parent(p) \notin fs.noMeta
         /\ Parent(p) \notin fs.noRead
         /\ \A b \in fs.badEntry : Parent(b) = Parent(p) => fs.order[p] < fs.order[b]

IsFinished(i) == sent[i].type = "FinishedEntry"

\* the messages sent by the traversal of the k-th root
SentBy(k) == {i \in 1..Len(sent) : origin[i][1] = k}

\* C2: the FinishedEntry of a root's traversal is the last message of that
\* traversal: when it is sent no item of the traversal is outstanding, the
\* SizeEntry or Error of every entry the traversal gets to is already in the
\* channel, and no message of the traversal follows it.
C2_FinishedLast ==
    \A j \in 1..Len(sent) :
        IsFinished(j) =>
            LET k == origin[j][1] IN
            /\ \A i \in SentBy(k) : i <= j
            /\ \A p \in Paths : item[<<k, p>>] \in {"none", "done"}
            /\ \A p \in Paths :
                  Reached(p, root_directories[k]) =>
                      \E i \in 1..(j - 1) :
                          /\ origin[i] = <<k, p>>
                          /\ sent[i].type \in {"SizeEntry", "Error"}

\* C2 witness: two workers; the whole tree under path 1 was visited, its
\* four SizeEntry messages precede the FinishedEntry
C2_Witness ==
    /\ num_threads = 2
    /\ root_directories = <<1>>
    /\ Len(sent) = NumPaths + 1
    /\ IsFinished(Len(sent))
    /\ \A i \in 1..NumPaths : IsSizeEntry(i)

FinishedOf(k) == {i \in SentBy(k) : IsFinished(i)}

\* C3: every FinishedEntry is sent by a depth-0 call and carries the root of
\* its traversal; each root given to the scan gets at most one, has it
\* exactly when its depth-0 call is done, and has exactly one when the scan
\* is over, whatever happened to the root's own metadata or listing.
C3_OneFinishedPerRoot ==
    /\ \A i \in 1..Len(sent) :
          IsFinished(i) =>
              /\ origin[i][2] = root_directories[origin[i][1]]
              /\ sent[i].path = root_directories[origin[i][1]]
    /\ \A k \in Roots :
          /\ Cardinality(FinishedOf(k)) <= 1
          /\ (item[<<k, root_directories[k]>>] = "done") <=> (FinishedOf(k) # {})
    /\ closed => \A k \in Roots : Cardinality(FinishedOf(k)) = 1

\* C3 witness: the scan is over; one root's metadata could not be read, the
\* other root is a regular file, and each has its FinishedEntry
C3_Witness ==
    /\ closed
    /\ Len(root_directories) = 2
    /\ root_directories[1] \in fs.noMeta
    /\ ~IsDir(root_directories[2])
    /\ root_directories[2] \notin fs.noMeta
    /\ FinishedOf(1) # {} /\ FinishedOf(2) # {}


\* the lines of output that report a size for path r
SizeLines(r) == {n \in 1..Len(output) : output[n].line = "size" /\ output[n].path = r}

\* the distinct roots given to the scan
RootSet == {root_directories[k] : k \in Roots}

\* C4: once the receiver has processed FinishedEntry(r), it processes no
\* SizeEntry owned by r any more, and the total reported for r at that moment
\* is the total of r when the stream is exhausted.
C4_FinalAtFinished ==
    /\ \A i, j \in 1..rcvd :
          (i < j /\ IsFinished(i) /\ IsSizeEntry(j)) => sent[j].root # sent[i].path
    /\ p_returned =>
          \A r \in RootSet : \A n \in SizeLines(r) : output[n].size = p_sizes[r]

\* C5: in streaming mode the result of every root given to the scan is
\* reported exactly once, when its FinishedEntry is processed: a root has one
\* size line if a FinishedEntry of it has been processed and none before.
C5_ReportedOnce ==
    \A r \in RootSet :
        Cardinality(SizeLines(r)) =
            IF \E i \in 1..rcvd : IsFinished(i) /\ sent[i].path = r THEN 1 ELSE 0

\* C6: the list Walk::run returns holds exactly one pair for every distinct
\* root given to the scan, so it is not empty.
C6_OnePairPerRoot ==
    result # None =>
        LET vec == result[1].sizes_vec IN
        /\ {vec[i][1] : i \in 1..Len(vec)} = RootSet
        /\ Len(vec) = Cardinality(RootSet)
        /\ Len(vec) >= 1


\* the traversal of the k-th root sends a SizeEntry for path p
Counted(k, p) == Reached(p, root_directories[k]) /\ p \notin fs.noMeta

CountedItems == {i \in Items : Counted(i[1], i[2])}

\* the size the scan attributes to the entry at path p
EntrySize(p) == FileSize(filesize_type, Metadata(p))

RECURSIVE SumOver(_, _)
\* the sum of f[x] over the x in S
SumOver(f, S) ==
    IF S = {} THEN 0
    ELSE LET x == CHOOSE y \in S : TRUE IN f[x] + SumOver(f, S \ {x})

\* the sum of the sizes of the entries at the paths of P: one size per
\* distinct inode when entries carry an identity, one per entry otherwise
DistinctSize(P) ==
    IF fs.ids
    THEN SumOver([p \in Paths |-> EntrySize(p)], {fs.ino[p] : p \in P})
    ELSE SumOver([p \in Paths |-> EntrySize(p)], P)

\* the sum every root's total should add up to: one size per distinct inode
\* visited, or one per visit when entries carry no identity
ExpectedSum ==
    IF fs.ids
    THEN DistinctSize({i[2] : i \in CountedItems})
    ELSE SumOver([i \in Items |-> EntrySize(i[2])], CountedItems)

\* C7: when the scan has returned, the totals of all roots add up to the sum
\* of the sizes of the distinct inodes visited (each hard-linked inode once,
\* whichever root's entry arrived first), or, when entries carry no
\* identity, to the sum of the sizes of all visited entries.
C7_HardLinksOnce ==
    result # None =>
        /\ SumSeq(result[1].sizes_vec) = ExpectedSum
        /\ SumValues(sizes) = ExpectedSum

\* C7 witness: the scan has returned after visiting, under two different
\* roots, two entries that are hard links to one inode
C7_Witness ==
    /\ result # None
    /\ fs.ids
    /\ \E i, j \in CountedItems :
          /\ root_directories[i[1]] # root_directories[j[1]]
          /\ i[2] # j[2]
          /\ fs.ino[i[2]] = fs.ino[j[2]]

\* a scan of the single root r over a tree without hard links and without
\* inaccessible entries, in apparent-size mode
PlainTree(r) ==
    /\ root_directories = <<r>>
    /\ filesize_type = "ApparentSize"
    /\ fs.noMeta = {} /\ fs.noRead = {} /\ fs.badEntry = {}
    /\ \A p \in Paths : fs.ino[p] = p

Under(r) == {p \in Paths : IsUnder(p, r)}

\* C8, as amended: for a tree without hard links and inaccessible entries,
\* scanned as the only root in apparent-size mode, the result is the single
\* pair of the root and the sum of the logical sizes of all entries of the
\* tree, the directories' own entries included, and there is no error.
C8_ApparentTotal ==
    \A r \in Paths :
        (result # None /\ PlainTree(r)) =>
            /\ result[1].sizes_vec = <<<<r, SumOver([p \in Paths |-> Metadata(p).len], Under(r))>>>>
            /\ result[1].errors = <<>>

\* C8 witness: the scan of the whole tree under path 1 has returned
C8_Witness ==
    /\ result # None
    /\ PlainTree(1)
    /\ Len(result[1].sizes_vec) = 1

\* C8, as claimed: the total equals S, the total logical size of the files of
\* the tree.
C8_TotalIsSumOfFiles ==
    \A r \in Paths :
        (result # None /\ PlainTree(r)) =>
            /\ result[1].sizes_vec =
                  <<<<r, SumOver([p \in Paths |-> Metadata(p).len], {p \in Under(r) : ~IsDir(p)})>>>>
            /\ result[1].errors = <<>>


\* the messages item <<k, p>> sent for its entry (the FinishedEntry of a
\* depth-0 call is not one of them)
EntryMsgs(k, p) == {i \in 1..Len(sent) : origin[i] = <<k, p>> /\ ~IsFinished(i)}

StrictlyUnder(d) == {c \in Paths : c # d /\ IsUnder(c, d)}

\* the visit of item <<k, p>> has dealt with the entry and its listing
Listed(k, p) == item[<<k, p>>] \in {"joining", "returned", "done"}

RECURSIVE CountIn(_, _)
\* the number of occurrences of e in the sequence s
CountIn(e, s) == IF s = <<>> THEN 0 ELSE (IF Head(s) = e THEN 1 ELSE 0) + CountIn(e, Tail(s))

\* C9: a directory d whose metadata can be read and whose children cannot be
\* listed gets, from the traversal that visits it, its SizeEntry and then
\* one CouldNotReadDir error, and nothing is dispatched or sent for any
\* descendant of d; the scan is never stuck, the returned error list holds
\* the error once per visit of d, and when d is the only fault of a
\* single-root scan the root's total is the size of the entries under the
\* root that are not descendants of d, d's own entry included.
C9_UnreadableDirectory ==
    /\ \A k \in Roots : \A d \in fs.noRead \ fs.noMeta :
          Reached(d, root_directories[k]) =>
              /\ \A c \in StrictlyUnder(d) :
                    item[<<k, c>>] = "none" /\ EntryMsgs(k, c) = {}
              /\ Cardinality(EntryMsgs(k, d)) <= 2
              /\ \A i \in EntryMsgs(k, d) :
                    \/ IsSizeEntry(i) /\ \A j \in EntryMsgs(k, d) : i <= j
                    \/ /\ sent[i] = ErrorMsg("CouldNotReadDir", d)
                       /\ \E j \in EntryMsgs(k, d) : j < i /\ IsSizeEntry(j)
              /\ Listed(k, d) => Cardinality(EntryMsgs(k, d)) = 2
    /\ (fs.noRead # {} /\ result = None) => ENABLED Next
    /\ result # None =>
          \A d \in fs.noRead \ fs.noMeta :
              /\ CountIn([kind |-> "CouldNotReadDir", path |-> d], result[1].errors)
                    = Cardinality({k \in Roots : Reached(d, root_directories[k])})
              /\ \A r \in Paths :
                    (/\ root_directories = <<r>>
                     /\ IsUnder(d, r)
                     /\ fs.noRead = {d} /\ fs.noMeta = {} /\ fs.badEntry = {})
                    => result[1].sizes_vec = <<<<r, DistinctSize(Under(r) \ StrictlyUnder(d))>>>>

\* C9 witness: the scan of path 1 has returned; its subdirectory 2 could not
\* be listed, the error is in the result, and the total is not the size of
\* the whole tree
C9_Witness ==
    /\ result # None
    /\ root_directories = <<1>>
    /\ fs.noRead = {2}
    /\ result[1].errors = <<[kind |-> "CouldNotReadDir", path |-> 2]>>
    /\ result[1].sizes_vec[1][2] = DistinctSize({1, 2, 3})
    /\ result[1].sizes_vec[1][2] # DistinctSize(Under(1))

\* the receiver takes the next message in this step
Receives(type) == rcvd' = rcvd + 1 /\ sent[rcvd + 1].type = type

C10_Entries ==
    /\ \A i \in 1..Len(sent) : IsSizeEntry(i) => origin[i][2] \notin fs.noMeta
    /\ \A k \in Roots : \A p \in fs.noMeta :
          Reached(p, root_directories[k]) =>
              /\ \A c \in StrictlyUnder(p) :
                    item[<<k, c>>] = "none" /\ EntryMsgs(k, c) = {}
              /\ \A i \in EntryMsgs(k, p) : sent[i] = ErrorMsg("NoMetadataForPath", p)
              /\ Cardinality(EntryMsgs(k, p))
                    = IF item[<<k, p>>] \in {"returned", "done"} THEN 1 ELSE 0
    /\ result # None =>
          /\ \A i \in CountedItems : \E n \in EntryMsgs(i[1], i[2]) : IsSizeEntry(n)
          /\ \A p \in fs.noMeta :
                CountIn([kind |-> "NoMetadataForPath", path |-> p], result[1].errors)
                   = Cardinality({k \in Roots : Reached(p, root_directories[k])})

\* C10: an entry whose metadata cannot be read gets, from the traversal that
\* visits it, exactly one NoMetadataForPath error and no SizeEntry, and
\* nothing is dispatched or sent for its descendants; the receiver changes
\* neither a total nor the SeenSet when it processes the error; every other
\* entry the scan gets to has its SizeEntry when the scan returns.
C10_MetadataUnavailable ==
    /\ []C10_Entries
    /\ [][Receives("Error") => (ids' = ids /\ sizes' = sizes)]_vars

\* C10 witness: the scan of path 1 has returned; the metadata of entry 2
\* could not be read, entry 3 was counted, the totals hold entry 1 and 3
C10_Witness ==
    /\ result # None
    /\ root_directories = <<1>>
    /\ fs.noMeta = {2}
    /\ fs.ids
    /\ result[1].errors = <<[kind |-> "NoMetadataForPath", path |-> 2]>>
    /\ ids = {1, 3}
    /\ sizes = (1 :> (EntrySize(1) + EntrySize(3)))


\* Walk::run has returned: every task is done, every Sender dropped, the
\* channel drained and the receive loop over
ScanOver ==
    /\ result # None
    /\ closed
    /\ rcvd = Len(sent)
    /\ \A w \in Workers : stack[w] = <<>>
    /\ \A i \in Items : item[i] \in {"none", "done"}

\* C11: under fair scheduling every scan eventually completes, whatever the
\* tree, the roots, the faults and the worker count: all dispatched tasks
\* return, the channel closes, the receive loop ends and run returns.
C11_Termination == <>ScanOver

\* C11 witness: a single worker has run the nested fan-out of the whole tree
\* under path 1 and the scan is over
C11_Witness ==
    /\ ScanOver
    /\ num_threads = 1
    /\ root_directories = <<1>>
    /\ \A p \in Paths : item[<<1, p>>] = "done"


\* no inode is visited under two different roots
NoSharedIdentity ==
    \A i, j \in CountedItems :
        fs.ino[i[2]] = fs.ino[j[2]] => root_directories[i[1]] = root_directories[j[1]]

\* C12, as amended: two scans of the same unmodified tree with the same
\* roots, whatever the worker counts and interleavings, end with the same
\* sum of totals, and with the same total for every root when entries carry
\* no identity or no inode is visited under two different roots.
C12_IdempotentTotals ==
    (previous # <<>> /\ result # None) =>
        /\ SumValues(sizes) = SumValues(previous[1].totals)
        /\ (~fs.ids \/ NoSharedIdentity) => sizes = previous[1].totals

\* C12 witness: the second scan of two roots that share no inode has
\* returned with the same non-empty totals as the first scan
C12_Witness ==
    /\ previous # <<>>
    /\ result # None
    /\ fs.ids
    /\ NoSharedIdentity
    /\ root_directories = <<2, 3>>
    /\ DOMAIN sizes = {2, 3}
    /\ sizes = previous[1].totals

\* C12, as claimed: two scans of the same unmodified tree with the same roots
\* yield identical totals for every root.
C12_IdenticalTotals ==
    (previous # <<>> /\ result # None) => sizes = previous[1].totals


(***************************************************************************)
(* Roots scanned together and alone (SpecSplit): previous[1] is the scan   *)
(* of the two roots, previous[2] the scan of the first root alone, and the *)
(* current scan is the scan of the second root alone.                      *)
(***************************************************************************)
SplitOver == Len(previous) = 2 /\ result # None

\* the entries a scan of root r stats successfully
Visited(r) == {p \in Paths : Reached(p, r) /\ p \notin fs.noMeta}

\* the subtrees of roots a and b hold an entry of the same inode
SharedIdentity(a, b) == \E p \in Visited(a), q \in Visited(b) : fs.ino[p] = fs.ino[q]

\* C13: when the subtrees of roots A and B share no identity, the scan of
\* both gives A and B the totals their scans alone give them, whatever the
\* interleavings and worker counts of the three scans.
C13_RootIndependence ==
    SplitOver =>
        LET A == previous[1].roots[1]
            B == previous[1].roots[2]
        IN  ~SharedIdentity(A, B) =>
                /\ Get(previous[1].totals, A) = Get(previous[2].totals, A)
                /\ Get(previous[1].totals, B) = Get(sizes, B)

\* C13 witness: the three scans of roots 2 and 3, which share no inode, have
\* returned; root 2 holds an entry besides itself and both roots have a total
C13_Witness ==
    /\ SplitOver
    /\ previous[1].roots = <<2, 3>>
    /\ ~SharedIdentity(2, 3)
    /\ fs.ids
    /\ 4 \in Visited(2)
    /\ DOMAIN previous[1].totals = {2, 3}
    /\ previous[1].totals[2] = previous[2].totals[2]
    /\ previous[1].totals[3] = sizes[3]

\* C14: when the subtrees of roots A and B share identities, the totals of
\* the scan of both add up to at most the sum of the totals of the two scans
\* alone; and each scan alone counts every inode it visits, whatever the
\* scans before it have seen.
C14_CombinedAtMostSeparate ==
    SplitOver =>
        LET A == previous[1].roots[1]
            B == previous[1].roots[2]
        IN  /\ SharedIdentity(A, B) =>
                   SumValues(previous[1].totals)
                       <= SumValues(previous[2].totals) + SumValues(sizes)
            /\ SumValues(previous[2].totals) = DistinctSize(Visited(A))
            /\ SumValues(sizes) = DistinctSize(Visited(B))

\* C14 witness: roots 3 and 4 are hard links of one file; the scan of both
\* counts it once and the two scans alone count it once each
C14_Witness ==
    /\ SplitOver
    /\ fs.ids
    /\ previous[1].roots = <<3, 4>>
    /\ SharedIdentity(3, 4)
    /\ SumValues(sizes) > 0
    /\ SumValues(previous[1].totals) < SumValues(previous[2].totals) + SumValues(sizes)


(***************************************************************************)
(* The report of run_and_print and of run_and_print_sorted.                *)
(***************************************************************************)
\* the positions of the lines of a kind in the output
LinesOf(kind) == {i \in 1..Len(output) : output[i].line = kind}

\* every root's FinishedEntry has been processed
AllFinishedProcessed ==
    \A k \in Roots : \E i \in 1..rcvd : sent[i] = FinishedEntry(root_directories[k])

\* C15: run_and_print writes the line of the grand total at most once and
\* never when no total is asked for; it writes it only when the stream has
\* ended and every root's FinishedEntry is processed, after every per-root
\* line; a call that has returned with a total asked for has written it
\* exactly once, as the last two lines, and the value is the sum of all
\* roots' final totals.
C15_GrandTotal ==
    /\ Cardinality(LinesOf("Total:")) <= 1
    /\ ~opts.total => LinesOf("Total:") = {}
    /\ \A i \in LinesOf("Total:") :
          /\ closed /\ rcvd = Len(sent)
          /\ AllFinishedProcessed
          /\ \A j \in LinesOf("size") : j # i + 1 => j < i
          /\ i + 1 \in LinesOf("size") => output[i + 1].size = ExpectedSum
    /\ (p_returned /\ opts.total) =>
          /\ LinesOf("Total:") = {Len(output) - 1}
          /\ output[Len(output)] = [to |-> "stdout", line |-> "size", path |-> 0,
                                    size |-> SumValues(p_sizes)]
          /\ SumValues(p_sizes) = ExpectedSum

\* C15 witness: run_and_print of two roots has returned with a total asked
\* for; both roots' lines come before the line of the total, which is not 0
C15_Witness ==
    /\ p_returned
    /\ opts.total
    /\ Len(root_directories) = 2
    /\ Cardinality(LinesOf("size")) = 3
    /\ LinesOf("Total:") = {Len(output) - 1}
    /\ output[Len(output)].size > 0


IsErrorLine(l) == l.line = "error"

IsErrorMsg(m) == m.type = "Error"

RECURSIVE ErrorsOf(_)
\* the errors of a sequence of messages or of output lines, in its order
ErrorsOf(seq) ==
    IF seq = <<>> THEN <<>> ELSE <<Head(seq).error>> \o ErrorsOf(Tail(seq))

\* the errors shown one by one, in the order of the output
ShownErrors == ErrorsOf(SelectSeq(output, IsErrorLine))

\* the errors of the Error messages received so far, in arrival order
ReceivedErrors == ErrorsOf(SelectSeq(SubSeq(sent, 1, rcvd), IsErrorMsg))

\* the sequence s is the beginning of the sequence t
IsPrefix(s, t) == Len(s) <= Len(t) /\ SubSeq(t, 1, Len(s)) = s

\* C16: in run_and_print and in run_and_print_sorted alike, without verbose
\* no error is ever shown on its own and the finished report holds one
\* warning if an Error message was received and none otherwise; with verbose
\* no warning is ever shown and the finished report shows every received
\* error once (run_and_print shows each as it is received, up to the write
\* that ends the process, if one does).
C16_ErrorVisibility ==
    /\ ~opts.verbose => ShownErrors = <<>>
    /\ opts.verbose => LinesOf("warning") = {}
    /\ Cardinality(LinesOf("warning")) <= 1
    /\ (opts.verbose /\ opts.method = "run_and_print") =>
          IF Running THEN ShownErrors = ReceivedErrors
          ELSE IsPrefix(ShownErrors, ReceivedErrors)
    /\ p_returned =>
          /\ rcvd = Len(sent)
          /\ opts.verbose => ShownErrors = ReceivedErrors
          /\ ~opts.verbose => (LinesOf("warning") # {} <=> ReceivedErrors # <<>>)

\* C16 witness: run_and_print_sorted without verbose has reported a scan in
\* which two Error messages were received: one warning, no error line
C16_Witness ==
    /\ p_returned
    /\ opts.method = "run_and_print_sorted"
    /\ ~opts.verbose
    /\ Len(ReceivedErrors) = 2
    /\ Cardinality(LinesOf("warning")) = 1
    /\ ShownErrors = <<>>


(***************************************************************************)
(* The channel and the error list.                                         *)
(***************************************************************************)
\* the errors of all Error messages sent, in the order of the channel
SentErrors == ErrorsOf(SelectSeq(sent, IsErrorMsg))

C17_Received ==
    /\ rcvd <= Len(sent)
    /\ error_messages = ReceivedErrors
    /\ result # None =>
          /\ closed
          /\ rcvd = Len(sent)
          /\ result[1].errors = SentErrors

\* C17: the channel keeps every message sent until the receiver has taken
\* it, the receiver takes the messages one at a time in the order of the
\* channel, and Walk::run returns only when it has processed them all; no
\* message is sent after that.  So the error list holds one element for
\* every Error message sent, in arrival order.
C17_NoMessageDropped ==
    /\ []C17_Received
    /\ [][/\ Len(sent') >= Len(sent)
          /\ SubSeq(sent', 1, Len(sent)) = sent
          /\ rcvd' \in {rcvd, rcvd + 1}
          /\ result # None => sent' = sent]_vars

\* C17 witness: the scan of a root directory that cannot be listed has
\* returned; its three messages are processed and the one error is returned
C17_Witness ==
    /\ result # None
    /\ root_directories = <<1>>
    /\ fs.noRead = {1}
    /\ Len(sent) = 3
    /\ rcvd = 3
    /\ result[1].errors = <<[kind |-> "CouldNotReadDir", path |-> 1]>>

\* the walk of root k meets the entry at path p: p is the root, or an entry
\* of a directory the walk lists
Met(k, p) ==
    \/ p = root_directories[k]
    \/ /\ p > 1
       /\ Reached(Parent(p), root_directories[k])
       /\ Parent(p) \notin fs.noMeta
       /\ Parent(p) \notin fs.noRead

\* the returned error list holds an error about one of the paths of P
ErrorAbout(P) == \E i \in 1..Len(result[1].errors) : result[1].errors[i].path \in P

\* C18: when the scan has returned, every failure the traversal met is in
\* the error list: an entry whose metadata cannot be read, a directory that
\* cannot be listed, and an entry of a listing that could not be read.
C18_AllErrorsCollected ==
    result # None =>
        \A k \in Roots : \A p \in Paths :
            Met(k, p) =>
                /\ (p # root_directories[k] /\ p \in fs.badEntry
                        /\ \A b \in fs.badEntry :
                               Parent(b) = Parent(p) => fs.order[p] <= fs.order[b]) =>
                       ErrorAbout({p, Parent(p)})
                /\ (Reached(p, root_directories[k]) /\ p \in fs.noMeta) =>
                       \E i \in 1..Len(result[1].errors) :
                           result[1].errors[i] = [kind |-> "NoMetadataForPath", path |-> p]
                /\ (Reached(p, root_directories[k]) /\ p \notin fs.noMeta
                        /\ IsDir(p) /\ p \in fs.noRead) =>
                       \E i \in 1..Len(result[1].errors) :
                           result[1].errors[i] = [kind |-> "CouldNotReadDir", path |-> p]

(***************************************************************************)
(* The two receive loops side by side (SpecAgg).                           *)
(***************************************************************************)
\* C19: fed the same messages, Walk::run and Walk::run_and_print hold the
\* same set of identities and the same totals after every message both
\* have processed, the one that ends either call included, and without
\* verbose the tainted flag of run_and_print is set exactly when the error
\* list of Walk::run is not empty.
C19_SameAggregation ==
    [][(rcvd' = rcvd + 1 /\ halt = "no" /\ p_halt = "no") =>
          /\ ids' = p_ids'
          /\ sizes' = p_sizes'
          /\ ~opts.verbose => (tainted_results' <=> error_messages' # <<>>)]_vars

\* C19 witness: without verbose, both loops have processed an Error and two
\* SizeEntry messages of one identity, the second of which they left out
C19_Witness ==
    /\ rcvd = 3
    /\ ~opts.verbose
    /\ tainted_results
    /\ Len(error_messages) = 1
    /\ Cardinality(ids) = 1
    /\ p_ids = ids
    /\ \E r \in 1..MaxRoots : sizes = (r :> 1) /\ p_sizes = sizes
    /\ \E i, j \in 1..rcvd :
          /\ i < j /\ IsSizeEntry(i) /\ IsSizeEntry(j)
          /\ sent[i].unique_id # None /\ sent[i].unique_id = sent[j].unique_id
          /\ sent[j].size = 1

\* map2 holds every total of map, none of them smaller, and the totals of
\* the roots outside S are the same in both
Grown(map, map2, S) ==
    /\ DOMAIN map \subseteq DOMAIN map2
    /\ DOMAIN map2 \subseteq DOMAIN map \cup S
    /\ \A r \in DOMAIN map : Leq64(map[r], map2[r])
    /\ \A r \in DOMAIN map \ S : map2[r] = map[r]

\* C20: in both receive loops, an Error or a FinishedEntry leaves the set of
\* identities and all totals as they are; a SizeEntry of root r changes no
\* total but r's and removes no identity; so the set of identities only
\* grows and no total ever decreases.
C20_Frame ==
    [][rcvd' = rcvd + 1 =>
          LET msg == sent'[rcvd']
          IN  /\ msg.type \in {"Error", "FinishedEntry"} =>
                     /\ ids' = ids /\ sizes' = sizes
                     /\ p_ids' = p_ids /\ p_sizes' = p_sizes
              /\ msg.type = "SizeEntry" =>
                     /\ Grown(sizes, sizes', {msg.root})
                     /\ Grown(p_sizes, p_sizes', {msg.root})
              /\ ids \subseteq ids' /\ p_ids \subseteq p_ids'
              /\ Grown(sizes, sizes', DOMAIN sizes')
              /\ Grown(p_sizes, p_sizes', DOMAIN p_sizes')]_vars

====
